---- MODULE Spec2Model ----
(***************************************************************************)
(* State-machine model of raredoor/models.py: the persistence behaviour    *)
(* of the declared models (field constraints, TimestampedModel.save,       *)
(* generate_order_number) under the operations the source defines or       *)
(* inherits (construction and save).                                       *)
(*                                                                         *)
(* Nullable Python values are modelled as sequences of length 0 or 1:      *)
(* None is <<>> and a value v is <<v>>.  Character strings are sequences   *)
(* of one-character strings.                                               *)
(***************************************************************************)
EXTENDS Integers, Sequences, FiniteSets, TLC

VARIABLES clock, inst, nextval, call,
          retailers, discounts, redemptions, users, profiles

vars == <<clock, inst, nextval, call,
          retailers, discounts, redemptions, users, profiles>>

\* ------------------------------------------------------------------
\* Bounds
\* ------------------------------------------------------------------
MaxClock == 3
MaxRedemptions == 3

\* ------------------------------------------------------------------
\* Python values
\* ------------------------------------------------------------------
None == <<>>
Some(v) == <<v>>
Val(x) == x[1]

\* Python truthiness of an id: None and 0 are falsy, a UUID is truthy
Falsy(x) == x = None \/ x = Some(0)

IsPrefix(p, s) == Len(p) <= Len(s) /\ SubSeq(s, 1, Len(p)) = p

Digits == {"0", "1", "2", "3", "4", "5", "6", "7", "8", "9"}

\* the most recent save call: operation, target row, argument and outcome
CallOf(op, target, arg, outcome) ==
  [op |-> op, target |-> target, arg |-> arg, outcome |-> outcome]

NoCall == CallOf("none", "none", None, "none")

RetailerIds == {"R1", "R2", "R3"}
DiscountIds == {1, 2}
UserIds == {"U1", "U2", "U3"}
ProfileIds == {1, 2}

\* ------------------------------------------------------------------
\* Mixins and the models that use them
\* ------------------------------------------------------------------
Insts == {"addr1", "prod1", "order1", "order2", "item1", "offer1"}

KindOf(i) ==
  CASE i = "addr1" -> "PostalAddress"
    [] i = "prod1" -> "Product"
    [] i \in {"order1", "order2"} -> "Order"
    [] i = "item1" -> "OrderItem"
    [] i = "offer1" -> "Offer"

TimestampedModel == {"PostalAddress", "Product", "Order", "OrderItem", "Offer"}

UUIDModel == {"PostalAddress", "Product"}

\* Order declares order_number as its primary key, so it has no id field
HasIdAttr(kind) == kind # "Order"

\* values uuid.uuid4 may return (all truthy)
Uuid4Values == {11, 12}

\* order.product.retailer.order_prefix values an order may be created for
OrderPrefixes == {<<"R", "D">>, <<"T", "R">>}

\* def generate_order_number(order): pass
generate_order_number(order) == None

Unconstructed == [exists |-> FALSE]

\* Model.__init__: every field takes its declared default
NewInstance(i, uuid, prefix) ==
  LET kind == KindOf(i)
      base == [exists |-> TRUE, kind |-> kind,
               id |-> IF kind \in UUIDModel THEN Some(uuid) ELSE None,
               created_at |-> None, updated_at |-> None, stored |-> FALSE]
  IN IF kind = "Order"
     THEN LET order == [retailer_prefix |-> prefix] @@ base
          IN [order_number |-> generate_order_number(order)] @@ order
     ELSE base

New(i) ==
  /\ ~inst[i].exists
  /\ \E uuid \in Uuid4Values, prefix \in OrderPrefixes :
       inst' = [inst EXCEPT ![i] = NewInstance(i, uuid, prefix)]
  /\ UNCHANGED <<clock, nextval, call, retailers, discounts, redemptions, users, profiles>>

\* timezone.now() advances
Tick ==
  /\ clock < MaxClock
  /\ clock' = clock + 1
  /\ UNCHANGED <<inst, nextval, call, retailers, discounts, redemptions, users, profiles>>

\* if(not self.id): self.created_at = right_now
StampCreatedAlways(self, right_now) == [self EXCEPT !.created_at = Some(right_now)]

StampCreated(self, right_now) ==
  IF Falsy(self.id) THEN [self EXCEPT !.created_at = Some(right_now)] ELSE self

\* self.updated_at = right_now
StampUpdated(self, right_now) == [self EXCEPT !.updated_at = Some(right_now)]

\* created_at and updated_at are declared null=False
TimestampsNotNull(self) == self.created_at # None /\ self.updated_at # None

\* models.Model.save for a timestamped row: the row is written when the
\* NOT NULL columns are set; an AutoField id is assigned on insert
ModelSave(i, self) ==
  IF ~TimestampsNotNull(self)
  THEN /\ inst' = [inst EXCEPT ![i] = self]
       /\ call' = CallOf("save", i, None, "IntegrityError")
       /\ UNCHANGED nextval
  ELSE IF self.id = None
  THEN /\ inst' = [inst EXCEPT ![i] = [self EXCEPT !.id = Some(nextval[self.kind]),
                                                   !.stored = TRUE]]
       /\ nextval' = [nextval EXCEPT ![self.kind] = @ + 1]
       /\ call' = CallOf("save", i, None, "ok")
  ELSE /\ inst' = [inst EXCEPT ![i] = [self EXCEPT !.stored = TRUE]]
       /\ call' = CallOf("save", i, None, "ok")
       /\ UNCHANGED nextval

\* TimestampedModel.save
Save(i) ==
  /\ inst[i].exists
  /\ LET self == inst[i]
         right_now == clock
     IN IF ~HasIdAttr(self.kind)
        THEN \* self.id raises AttributeError before anything is assigned
             /\ call' = CallOf("save", i, None, "AttributeError")
             /\ UNCHANGED <<inst, nextval>>
        ELSE ModelSave(i, StampUpdated(StampCreated(self, right_now), right_now))
  /\ UNCHANGED <<clock, retailers, discounts, redemptions, users, profiles>>



\* empty database, no instance constructed
Init ==
  /\ clock = 1
  /\ inst = [i \in Insts |-> Unconstructed]
  /\ nextval = [k \in {"OrderItem", "Offer"} |-> 1]
  /\ call = NoCall
  /\ retailers = [r \in RetailerIds |-> None]
  /\ discounts = [d \in DiscountIds |-> None]
  /\ redemptions = <<>>
  /\ users = {}
  /\ profiles = [p \in ProfileIds |-> None]

NextRecords == Tick \/ (\E i \in Insts : New(i)) \/ (\E i \in Insts : Save(i))

SpecRecords == Init /\ [][NextRecords]_vars

\* ------------------------------------------------------------------
\* Retailer
\* ------------------------------------------------------------------
\* order_prefix values a caller may assign (None, or a string of at most 4)
PrefixInputs == {None, Some(<<>>), Some(<<"R", "D">>), Some(<<"T", "R">>)}

\* order_prefix is declared null=False
PrefixNotNull(prefix) == prefix # None

\* order_prefix is declared unique=True
PrefixUniqueNever(r, prefix) == TRUE

PrefixUnique(r, prefix) ==
  \A r2 \in RetailerIds \ {r} :
     retailers[r2] # None => Val(retailers[r2]).order_prefix # Val(prefix)

\* Retailer(id=r, order_prefix=prefix).save(): models.Model.save, the row
\* with primary key r is inserted or updated unless a constraint fails
SaveRetailer(r, prefix) ==
  /\ IF PrefixNotNull(prefix) /\ PrefixUnique(r, prefix)
     THEN /\ retailers' = [retailers EXCEPT ![r] = Some([order_prefix |-> Val(prefix)])]
          /\ call' = CallOf("SaveRetailer", r, prefix, "ok")
     ELSE /\ call' = CallOf("SaveRetailer", r, prefix, "IntegrityError")
          /\ UNCHANGED retailers
  /\ UNCHANGED <<clock, inst, nextval, discounts, redemptions, users, profiles>>

NextRetailers == \E r \in RetailerIds, prefix \in PrefixInputs : SaveRetailer(r, prefix)

SpecRetailers == Init /\ [][NextRetailers]_vars

\* ------------------------------------------------------------------
\* User and Profile
\* ------------------------------------------------------------------
\* User(UUIDModel, BaseUser): a new user row
CreateUser(u) ==
  /\ u \notin users
  /\ users' = users \cup {u}
  /\ call' = CallOf("CreateUser", u, None, "ok")
  /\ UNCHANGED <<clock, inst, nextval, retailers, discounts, redemptions, profiles>>

\* Profile.user is declared null=False
ProfileUserNotNull(user) == user # None

\* Profile.user is a foreign key to the user table
ProfileUserExists(user) == Val(user) \in users

\* Profile.user is a OneToOneField: the column is unique
ProfileUserUniqueNever(p, user) == TRUE

ProfileUserUnique(p, user) ==
  \A p2 \in ProfileIds \ {p} :
     profiles[p2] # None => Val(profiles[p2]).user # Val(user)

\* Profile(id=p, user=user, is_merchant=m).save()
SaveProfile(p, user, is_merchant) ==
  /\ IF /\ ProfileUserNotNull(user)
        /\ ProfileUserExists(user)
        /\ ProfileUserUnique(p, user)
     THEN /\ profiles' = [profiles EXCEPT ![p] =
                            Some([user |-> Val(user), is_merchant |-> is_merchant])]
          /\ call' = CallOf("SaveProfile", p, user, "ok")
     ELSE /\ call' = CallOf("SaveProfile", p, user, "IntegrityError")
          /\ UNCHANGED profiles
  /\ UNCHANGED <<clock, inst, nextval, retailers, discounts, redemptions, users>>

ProfileUserInputs == {None} \cup {Some(u) : u \in UserIds}

NextProfiles ==
  \/ \E u \in UserIds : CreateUser(u)
  \/ \E p \in ProfileIds, user \in ProfileUserInputs, m \in BOOLEAN : SaveProfile(p, user, m)

SpecProfiles == Init /\ [][NextProfiles]_vars

\* ------------------------------------------------------------------
\* Discount
\* ------------------------------------------------------------------
DISCOUNT_TYPES == {"RETAILER_SPECIFIC", "GENERAL"}

\* lower-casing of a code, character by character
LowerChar(c) ==
  CASE c = "P" -> "p"
    [] c = "R" -> "r"
    [] OTHER -> c

Lower(s) == [k \in 1..Len(s) |-> LowerChar(s[k])]

CodeInputs == {<<>>, <<"P", "R">>, <<"P", "r">>, <<"p", "r">>}

\* field values a caller may give a Discount before saving it
DiscountInputs ==
  [discount_type : DISCOUNT_TYPES,
   retailer : {None, Some("R1")},
   uses_per_user : {-1},
   uses_total : {-1},
   code : CodeInputs,
   fixed_amount_off : {None, Some(10)},
   percent_off : {None, Some(10)}]

UsageInputs ==
  [discount_type : {"GENERAL"},
   retailer : {None},
   uses_per_user : {-1, 1, 2},
   uses_total : {-1, 1, 2},
   code : {<<>>},
   fixed_amount_off : {Some(10)},
   percent_off : {None}]

\* Discount.retailer is a nullable foreign key to Retailer
DiscountRetailerExists(rec) ==
  rec.retailer # None => retailers[Val(rec.retailer)] # None

\* Discount(id=d, **rec).save(): Discount defines no save method, so this is
\* models.Model.save; the row with primary key d is inserted or updated
SaveDiscount(d, rec) ==
  /\ IF DiscountRetailerExists(rec)
     THEN /\ discounts' = [discounts EXCEPT ![d] = Some(rec)]
          /\ call' = CallOf("SaveDiscount", d, None, "ok")
     ELSE /\ call' = CallOf("SaveDiscount", d, None, "IntegrityError")
          /\ UNCHANGED discounts
  /\ UNCHANGED <<clock, inst, nextval, retailers, redemptions, users, profiles>>

NextDiscounts ==
  \/ SaveRetailer("R1", Some(<<"R", "D">>))
  \/ \E d \in DiscountIds, rec \in DiscountInputs : SaveDiscount(d, rec)

SpecDiscounts == Init /\ [][NextDiscounts]_vars

\* ------------------------------------------------------------------
\* DiscountRedemption
\* ------------------------------------------------------------------
\* order rows present in the database that a redemption may refer to
OrderRefs == {<<"R", "D", "1">>}

\* DiscountRedemption.authuser and .discount are foreign keys
RedemptionKeysExist(u, d) == u \in users /\ discounts[d] # None

\* DiscountRedemption(authuser=u, discount=d, order=o, timestamp=now).save():
\* DiscountRedemption defines no save method; a new row is appended
Redeem(u, d, o) ==
  /\ Len(redemptions) < MaxRedemptions
  /\ IF RedemptionKeysExist(u, d)
     THEN /\ redemptions' = Append(redemptions,
                 [authuser |-> u, discount |-> d, order |-> o, timestamp |-> clock])
          /\ call' = CallOf("Redeem", d, Some(u), "ok")
     ELSE /\ call' = CallOf("Redeem", d, Some(u), "IntegrityError")
          /\ UNCHANGED redemptions
  /\ UNCHANGED <<clock, inst, nextval, retailers, discounts, users, profiles>>

RedeemingUsers == {"U1", "U2"}

NextRedemptions ==
  \/ \E u \in RedeemingUsers : CreateUser(u)
  \/ \E d \in DiscountIds, rec \in UsageInputs : SaveDiscount(d, rec)
  \/ \E u \in RedeemingUsers, d \in DiscountIds, o \in OrderRefs : Redeem(u, d, o)

SpecRedemptions == Init /\ [][NextRedemptions]_vars

\* number of redemption rows of discount d, and of user u for discount d
UsesOf(d) == Cardinality({k \in 1..Len(redemptions) : redemptions[k].discount = d})

UsesOfBy(d, u) ==
  Cardinality({k \in 1..Len(redemptions) :
                 redemptions[k].discount = d /\ redemptions[k].authuser = u})

\* ------------------------------------------------------------------
\* Properties
\* ------------------------------------------------------------------
OrderInsts == {i \in Insts : inst[i].exists /\ inst[i].kind = "Order"}

IsNumeric(s) == Len(s) > 0 /\ \A k \in 1..Len(s) : s[k] \in Digits

\* C2: every Order created has an order_number that is set, consists of the
\* retailer's order_prefix followed by a numeric part, and differs from the
\* order_number of every other Order.
C2_OrderNumbering ==
  \A i \in OrderInsts :
     /\ inst[i].order_number # None
     /\ IsPrefix(inst[i].retailer_prefix, Val(inst[i].order_number))
     /\ IsNumeric(SubSeq(Val(inst[i].order_number),
                         Len(inst[i].retailer_prefix) + 1,
                         Len(Val(inst[i].order_number))))
     /\ \A j \in OrderInsts \ {i} : inst[j].order_number # inst[i].order_number

\* C3: the redemption rows of a Discount never exceed a positive uses_total,
\* and the rows of one user for a Discount never exceed a positive
\* uses_per_user.
C3_UsageLimits ==
  \A d \in DiscountIds :
     discounts[d] # None =>
       /\ Val(discounts[d]).uses_total > 0 => UsesOf(d) <= Val(discounts[d]).uses_total
       /\ \A u \in UserIds :
            Val(discounts[d]).uses_per_user > 0 =>
               UsesOfBy(d, u) <= Val(discounts[d]).uses_per_user

\* C4: no two stored Discounts have non-empty codes that are equal when
\* compared case-insensitively.
C4_CodesUniqueIgnoringCase ==
  \A d1, d2 \in DiscountIds :
     (d1 # d2 /\ discounts[d1] # None /\ discounts[d2] # None
        /\ Val(discounts[d1]).code # <<>>)
     => Lower(Val(discounts[d1]).code) # Lower(Val(discounts[d2]).code)

NonZero(x) == x # None /\ Val(x) # 0

\* C5: every stored Discount has fixed_amount_off or percent_off set to a
\* non-zero value, and never both set.
C5_ExactlyOneValue ==
  \A d \in DiscountIds :
     discounts[d] # None =>
       /\ NonZero(Val(discounts[d]).fixed_amount_off) \/ NonZero(Val(discounts[d]).percent_off)
       /\ ~(Val(discounts[d]).fixed_amount_off # None /\ Val(discounts[d]).percent_off # None)

\* C6: no stored Discount is RETAILER_SPECIFIC with retailer unset, or
\* GENERAL with a retailer set.
C6_ScopeMatchesType ==
  \A d \in DiscountIds :
     discounts[d] # None =>
       /\ Val(discounts[d]).discount_type = "RETAILER_SPECIFIC" => Val(discounts[d]).retailer # None
       /\ Val(discounts[d]).discount_type = "GENERAL" => Val(discounts[d]).retailer = None

C7_Unique ==
  \A r1, r2 \in RetailerIds :
     (r1 # r2 /\ retailers[r1] # None /\ retailers[r2] # None)
     => Val(retailers[r1]).order_prefix # Val(retailers[r2]).order_prefix

\* the step is a save of retailer call'.target that would duplicate the
\* order_prefix of another stored retailer
C7_Duplicating ==
  /\ call'.op = "SaveRetailer"
  /\ call'.arg # None
  /\ \E r2 \in RetailerIds \ {call'.target} :
        retailers[r2] # None /\ Val(retailers[r2]).order_prefix = Val(call'.arg)

C7_Rejects ==
  C7_Duplicating => (retailers' = retailers /\ call'.outcome = "IntegrityError")

\* C7: no two stored Retailers have the same order_prefix, and a save that
\* would duplicate the order_prefix of another stored Retailer is rejected
\* and leaves the stored Retailers unchanged.
C7_OrderPrefixUnique == []C7_Unique /\ [][C7_Rejects]_vars

\* a duplicate order_prefix was just rejected for R2 while R1 and R3 are
\* stored with different prefixes
C7_Witness ==
  /\ call.op = "SaveRetailer" /\ call.target = "R2" /\ call.outcome = "IntegrityError"
  /\ call.arg # None
  /\ retailers["R1"] # None /\ Val(retailers["R1"]).order_prefix = Val(call.arg)
  /\ retailers["R3"] # None

\* C8: after save has been called on a record of a TimestampedModel, its
\* created_at and updated_at are both set.
C8_SaveSetsBothTimestamps ==
  \A i \in Insts :
     (call.op = "save" /\ call.target = i)
     => (inst[i].created_at # None /\ inst[i].updated_at # None)

C9_UpdatedAfterCreated ==
  \A i \in Insts :
     (inst[i].exists /\ inst[i].stored)
     => Val(inst[i].updated_at) >= Val(inst[i].created_at)

C9_Step ==
  \A i \in Insts :
     (inst[i].exists /\ inst[i].updated_at # None)
     => /\ inst'[i].created_at = inst[i].created_at
        /\ Val(inst'[i].updated_at) >= Val(inst[i].updated_at)

\* C9: once save has run on a record no later save changes its created_at,
\* its updated_at never decreases, and every stored record has
\* updated_at >= created_at.
C9_CreatedAtWriteOnce == []C9_UpdatedAfterCreated /\ [][C9_Step]_vars

\* a stored record that was saved again at a later time
C9_Witness ==
  \E i \in Insts :
     /\ inst[i].exists /\ inst[i].stored
     /\ call.op = "save" /\ call.target = i /\ call.outcome = "ok"
     /\ Val(inst[i].updated_at) > Val(inst[i].created_at)

C10_OneToOne ==
  \A p \in ProfileIds :
     profiles[p] # None =>
       /\ Val(profiles[p]).user \in users
       /\ \A p2 \in ProfileIds \ {p} :
            profiles[p2] # None => Val(profiles[p2]).user # Val(profiles[p]).user

\* the step is a save of profile call'.target for a user that another
\* stored profile already has
C10_Second ==
  /\ call'.op = "SaveProfile"
  /\ call'.arg # None
  /\ \E p2 \in ProfileIds \ {call'.target} :
        profiles[p2] # None /\ Val(profiles[p2]).user = Val(call'.arg)

C10_Rejects ==
  C10_Second => (profiles' = profiles /\ call'.outcome = "IntegrityError")

\* C10: every stored Profile refers to an existing User, no User has more
\* than one Profile, and saving a second Profile for a User is rejected.
C10_ProfileOneToOne == []C10_OneToOne /\ [][C10_Rejects]_vars

\* a second Profile for the user of profile 1 was just rejected, and both
\* profiles are stored for different users
C10_Witness ==
  /\ call.op = "SaveProfile" /\ call.target = 2 /\ call.outcome = "IntegrityError"
  /\ call.arg # None
  /\ profiles[1] # None /\ Val(profiles[1]).user = Val(call.arg)
  /\ profiles[2] # None

====
